---- MODULE Spec2Model ----
(***************************************************************************)
(* A model of the SplitWise backend's balance and settlement core:         *)
(*   - utils/helpers.py            round_decimal, split_amount_equally     *)
(*   - api/expenses.py             validate_and_create_splits,             *)
(*                                 create_expense, delete_expense          *)
(*   - api/participants.py         add_participant, delete_participant     *)
(*   - services/balance_service.py calculate_participant_balances,         *)
(*                                 generate_settlement_suggestions,        *)
(*                                 is_group_settled                        *)
(*                                                                         *)
(* Money is Decimal with two fractional digits in the code; here it is an  *)
(* integer number of cents.  Percentages have two fractional digits too    *)
(* and are integers in hundredths of a percent (100.00 % = 10000).         *)
(***************************************************************************)
EXTENDS Integers, Sequences, FiniteSets, TLC

VARIABLES
    participants,    \* rows of table participants (one group): [id, name]
    expenses,        \* rows of table expenses: [id, amount, payer_id, split_mode]
    expense_splits,  \* rows of table expense_splits
    response,        \* outcome of the last request handled by the API
    request,         \* the body of the POST expense request being handled
    add_requests,    \* the add_participant requests being handled at once
    split_call,      \* one call of split_amount_equally: arguments and result
    balances,        \* the mapping handed to generate_settlement_suggestions
    creditors,       \* its local list creditors
    debtors,         \* its local list debtors
    i,               \* its creditor pointer (0-based as in the code)
    j,               \* its debtor pointer
    settlements,     \* its local list settlements
    pc,              \* its position: "idle", "start", "loop", "done"
    group_balance,   \* what get_group_balances has computed from balances
    snapshots        \* the balances of the committed rows that each query of
                     \* calculate_participant_balances ran against

vars == <<participants, expenses, expense_splits, response, request,
          add_requests, split_call,
          balances, creditors, debtors, i, j, settlements, pc, group_balance,
          snapshots>>

ledgerVars == <<participants, expenses, expense_splits, response, request,
                add_requests>>
settleVars == <<balances, creditors, debtors, i, j, settlements, pc,
                group_balance, snapshots>>

(***************************************************************************)
(* Program constants.                                                      *)
(***************************************************************************)
\* validate_participant_limit(current_count, max_count=4)
MaxParticipants == 4
\* Decimal("0.01"), the tolerance of the balance service, in cents
Tolerance == 1
\* Decimal("100") in hundredths of a percent
Hundred == 10000
\* percentage: Optional[Decimal] = Field(None, ...): the absent percentage
None == -1

(***************************************************************************)
(* Bounds of the model.                                                    *)
(***************************************************************************)
\* largest amount (in cents) handed to split_amount_equally
MaxAmount == 10000
\* largest participant count handed to split_amount_equally
MaxN == 5
\* largest |net_balance| (in cents) of a balance mapping
MaxBal == 4
\* largest number of expenses stored at a time
MaxExpenses == 1
\* number of add_participant requests handled at the same time
MaxRequests == 2

(***************************************************************************)
(* Arithmetic helpers.                                                     *)
(***************************************************************************)
Abs(x) == IF x < 0 THEN -x ELSE x

Min(a, b) == IF a <= b THEN a ELSE b

Max(a, b) == IF a >= b THEN a ELSE b

RECURSIVE SumSeq(_)
SumSeq(s) == IF s = <<>> THEN 0 ELSE Head(s) + SumSeq(Tail(s))

\* round_decimal(value) for the non-negative rational value = num / den cents:
\* quantize to the cent with ROUND_HALF_EVEN.
round_decimal(num, den) ==
    LET q == num \div den
        r == num % den
    IN  IF 2 * r < den THEN q
        ELSE IF 2 * r > den THEN q + 1
        ELSE IF q % 2 = 0 THEN q ELSE q + 1

(***************************************************************************)
(* helpers.split_amount_equally                                            *)
(***************************************************************************)
\* a slip: the rounding difference is computed but never added to splits[0]
split_amount_equally_unadjusted(amount, num_participants) ==
    [k \in 1..num_participants |-> round_decimal(amount, num_participants)]

\* a slip: the last participant absorbs the rounding difference
split_amount_equally_last(amount, num_participants) ==
    LET base_amount  == round_decimal(amount, num_participants)
        total_splits == num_participants * base_amount
    IN  [k \in 1..num_participants |->
            IF k = num_participants THEN base_amount + (amount - total_splits)
            ELSE base_amount]

\* The list returned for num_participants > 0 (splits[0] is element 1 here).
split_amount_equally(amount, num_participants) ==
    LET base_amount  == round_decimal(amount, num_participants)
        splits       == [k \in 1..num_participants |-> base_amount]
        total_splits == SumSeq(splits)
    IN  IF total_splits # amount
        THEN [splits EXCEPT ![1] = @ + (amount - total_splits)]
        ELSE splits

(***************************************************************************)
(* Idle values: what the variables of one part hold while a specification  *)
(* exercises another part.                                                 *)
(***************************************************************************)
\* the detail of an HTTPException: its message and the values formatted into it
Detail(message, args) == [message |-> message, args |-> args]
NoDetail == Detail("", <<>>)
NoResponse == [op |-> "none", status |-> 0, id |-> 0, detail |-> NoDetail]
NoRequest == [amount |-> 0, payer_id |-> 0, split_mode |-> "none",
              splits |-> <<>>]

LedgerIdle ==
    /\ participants = {}
    /\ expenses = {}
    /\ expense_splits = {}
    /\ response = NoResponse
    /\ request = NoRequest
    /\ add_requests = <<>>

SplitIdle == split_call = [amount |-> 0, num_participants |-> 0,
                           state |-> "idle", splits |-> <<>>]

\* get_group_balances before it has called the balance service
NoGroupBalance == [matrix_called |-> FALSE, balance_matrix |-> <<>>,
                   settled_called |-> FALSE, is_settled |-> FALSE]

SettleIdle ==
    /\ group_balance = NoGroupBalance
    /\ balances = <<>>
    /\ creditors = <<>>
    /\ debtors = <<>>
    /\ i = 0
    /\ j = 0
    /\ settlements = <<>>
    /\ pc = "idle"
    /\ snapshots = {}

(***************************************************************************)
(* SpecSplit: calls of split_amount_equally on drawn arguments.            *)
(***************************************************************************)
InitSplit ==
    /\ LedgerIdle
    /\ SettleIdle
    /\ \E amount \in 1..MaxAmount, n \in 0..MaxN :
          split_call = [amount |-> amount, num_participants |-> n,
                        state |-> "pending", splits |-> <<>>]

\* One call: raises ValueError for num_participants <= 0, else returns the list.
\* The function keeps no state, so a repeated call runs the same code again.
CallSplitAmountEqually ==
    /\ split_call.state \in {"pending", "returned", "raised"}
    /\ split_call' =
          IF split_call.num_participants <= 0
          THEN [split_call EXCEPT !.state = "raised", !.splits = <<>>]
          ELSE [split_call EXCEPT
                   !.state = "returned",
                   !.splits = split_amount_equally(split_call.amount,
                                                   split_call.num_participants)]
    /\ UNCHANGED <<ledgerVars, settleVars>>

NextSplit == CallSplitAmountEqually

SpecSplit == InitSplit /\ [][NextSplit]_vars

(***************************************************************************)
(* The ledger: participants, expenses and expense_splits of one group.     *)
(***************************************************************************)
\* SplitMode (models/expense.py)
EQUAL == "equal"
CUSTOM_AMOUNT == "custom_amount"
PERCENTAGE == "percentage"
SplitModes == {EQUAL, CUSTOM_AMOUNT, PERCENTAGE}

\* Names a client gives to participants.  Participant.id is a fresh uuid4; the
\* model takes for it the index of the name, which is unused whenever the
\* insert is reached because names are unique within the group.
Names == <<"Ann", "Bob">>
ParticipantIds == 1..Len(Names)
\* further names, for the requests that meet a group at its limit
AllNames == Names \o <<"Cy", "Dee", "Eve", "Fay", "Gus">>
NewParticipantId(name) == CHOOSE k \in 1..Len(AllNames) : AllNames[k] = name

\* Expense.id is a fresh uuid4 as well: the smallest identifier not in use.
ExpenseIds == 1..MaxExpenses
NewExpenseId ==
    CHOOSE e \in 1..(MaxExpenses + 2) :
        /\ e \notin {x.id : x \in expenses}
        /\ \A f \in 1..(MaxExpenses + 2) :
              f \notin {x.id : x \in expenses} => e <= f

RECURSIVE SumAmounts(_)
\* sum of the amount column over a set of rows
SumAmounts(rows) ==
    IF rows = {} THEN 0
    ELSE LET r == CHOOSE x \in rows : TRUE
         IN  r.amount + SumAmounts(rows \ {r})

valid_participant_ids == {p.id : p \in participants}

SplitsOf(expense_id) == {s \in expense_splits : s.expense_id = expense_id}

Respond(op, status, id) ==
    response' = [op |-> op, status |-> status, id |-> id, detail |-> NoDetail]

RespondError(op, status, detail) ==
    response' = [op |-> op, status |-> status, id |-> 0, detail |-> detail]

(***************************************************************************)
(* schemas/expense.py: ExpenseCreate and ExpenseSplitCreate.  A request    *)
(* that fails them is answered 422 before the handler runs.                *)
(***************************************************************************)
ExpenseSplitCreateValid(s) ==
    /\ s.amount > 0
    /\ (s.percentage = None \/ (s.percentage >= 0 /\ s.percentage <= Hundred))

ExpenseCreateValid(amount, splits_data) ==
    /\ amount > 0
    /\ Len(splits_data) >= 1
    /\ \A k \in 1..Len(splits_data) : ExpenseSplitCreateValid(splits_data[k])

(***************************************************************************)
(* api/expenses.py: validate_and_create_splits.  The result is the status  *)
(* and detail of the HTTPException raised (status 0 when none; 500 for an  *)
(* exception nothing catches) and the ExpenseSplit rows added to the       *)
(* session, in order.                                                      *)
(***************************************************************************)
SplitRow(expense_id, participant_id, amount, percentage) ==
    [expense_id |-> expense_id, participant_id |-> participant_id,
     amount |-> amount, percentage |-> percentage]

\* amount = (expense.amount * percentage) / 100, quantized to the cent
\* (Decimal.quantize under the default context rounds half to even)
percentage_amount(amount, percentage) ==
    round_decimal(amount * percentage, Hundred)

\* a slip: the sums are compared within the tolerance of the balance service
validate_splits_equal_total_within_tolerance(splits, total) ==
    Abs(SumSeq(splits) - total) <= Tolerance

\* validators.validate_splits_equal_total: FALSE where the code raises
\* ValueError(f"Splits sum ({splits_sum}) doesn't match total ({total})")
validate_splits_equal_total(splits, total) == SumSeq(splits) = total

\* a slip: the percentages have to sum to exactly 100
percentages_rejected_unless_exact(total_percentage) ==
    total_percentage # Hundred

\* abs(total_percentage - Decimal("100")) > Decimal("0.01")
percentages_rejected(total_percentage) ==
    Abs(total_percentage - Hundred) > Tolerance

validate_and_create_splits(expense, splits_data) ==
    LET n == Len(splits_data)
        unknown == {k \in 1..n :
                      splits_data[k].participant_id \notin valid_participant_ids}
        Raise(status, detail) ==
            [status |-> status, detail |-> detail, rows |-> <<>>]
    IN  IF unknown # {} THEN
            \* the loop raises at the first identifier that is not in the group
            LET first == CHOOSE k \in unknown : \A m \in unknown : k <= m
            IN  Raise(400, Detail("Participant not found in this group",
                                  <<splits_data[first].participant_id>>))
        ELSE IF expense.split_mode = EQUAL THEN
            LET equal_splits == split_amount_equally(expense.amount, n)
            IN  [status |-> 0, detail |-> NoDetail,
                 rows |-> [k \in 1..n |->
                             SplitRow(expense.id, splits_data[k].participant_id,
                                      equal_splits[k], None)]]
        ELSE IF expense.split_mode = CUSTOM_AMOUNT THEN
            LET split_amounts == [k \in 1..n |-> splits_data[k].amount]
            IN  \* the ValueError becomes a 400 with detail=str(e)
                IF ~validate_splits_equal_total(split_amounts, expense.amount)
                THEN Raise(400, Detail("Splits sum doesn't match total",
                                       <<SumSeq(split_amounts), expense.amount>>))
                ELSE [status |-> 0, detail |-> NoDetail,
                      rows |-> [k \in 1..n |->
                                  SplitRow(expense.id,
                                           splits_data[k].participant_id,
                                           splits_data[k].amount, None)]]
        ELSE
            LET percentages == [k \in 1..n |-> splits_data[k].percentage]
            IN  \* sum() over a list holding None raises TypeError -> 500
                IF \E k \in 1..n : percentages[k] = None
                THEN Raise(500, NoDetail)
                ELSE IF percentages_rejected(SumSeq(percentages))
                THEN Raise(400, Detail("Percentages must sum to 100",
                                       <<SumSeq(percentages)>>))
                ELSE [status |-> 0, detail |-> NoDetail,
                      rows |-> [k \in 1..n |->
                                  SplitRow(expense.id,
                                           splits_data[k].participant_id,
                                           percentage_amount(expense.amount,
                                                             percentages[k]),
                                           percentages[k])]]

\* a slip: the table is created without uq_expense_participant
ViolatesUniqueSplit_unconstrained(rows) == FALSE

\* uq_expense_participant: the flush at commit raises IntegrityError when two
\* of the new rows name the same participant.
ViolatesUniqueSplit(rows) ==
    \E a, b \in 1..Len(rows) :
        a # b /\ rows[a].participant_id = rows[b].participant_id

(***************************************************************************)
(* database.py: get_db closes the session in its finally clause.  What was *)
(* added or flushed but never committed is rolled back with the session's  *)
(* transaction: none of these rows is kept.                                *)
(***************************************************************************)
\* a slip: the session commits what it holds when it is closed
rows_kept_at_close_committing(uncommitted) == uncommitted

rows_kept_at_close(uncommitted) == {}

(***************************************************************************)
(* api/expenses.py: create_expense.  The payer is checked, the expense row *)
(* is added and flushed, the splits are validated and added, and the       *)
(* commit stores all of them.  A failure leaves the session uncommitted.   *)
(* Spec stores at most MaxExpenses expenses at a time; a request sent to a *)
(* group that holds as many still gets an identifier of its own.           *)
(***************************************************************************)
create_expense(amount, payer_id, split_mode, splits_data) ==
    /\ UNCHANGED <<participants, request, add_requests, split_call, settleVars>>
    /\ LET new_expense == [id |-> NewExpenseId, amount |-> amount,
                           payer_id |-> payer_id, split_mode |-> split_mode]
           created == validate_and_create_splits(new_expense, splits_data)
           new_splits == {created.rows[k] : k \in 1..Len(created.rows)}
           Reject(status, detail, flushed_expenses, added_splits) ==
               /\ RespondError("create_expense", status, detail)
               /\ expenses' = expenses \cup rows_kept_at_close(flushed_expenses)
               /\ expense_splits' =
                     expense_splits \cup rows_kept_at_close(added_splits)
       IN  IF ~ExpenseCreateValid(amount, splits_data)
           THEN Reject(422, NoDetail, {}, {})
           ELSE IF payer_id \notin valid_participant_ids
           THEN Reject(400, Detail("Payer not found in this group", <<>>),
                       {}, {})
           ELSE IF created.status # 0
           THEN Reject(created.status, created.detail, {new_expense}, {})
           ELSE IF ViolatesUniqueSplit(created.rows)
           THEN Reject(500, NoDetail, {new_expense}, new_splits)
           ELSE /\ Cardinality(expenses) <= MaxExpenses
                /\ expenses' = expenses \cup {new_expense}
                /\ expense_splits' = expense_splits \cup new_splits
                /\ Respond("create_expense", 201, new_expense.id)

(***************************************************************************)
(* api/expenses.py: delete_expense.  Expense.splits cascades the delete.   *)
(***************************************************************************)
\* a slip: the splits of the expense stay behind
delete_expense_keeping_splits(expense_id) ==
    /\ UNCHANGED <<participants, request, add_requests, split_call, settleVars>>
    /\ IF expense_id \notin {x.id : x \in expenses}
       THEN /\ Respond("delete_expense", 404, expense_id)
            /\ UNCHANGED <<expenses, expense_splits>>
       ELSE /\ expenses' = {x \in expenses : x.id # expense_id}
            /\ UNCHANGED expense_splits
            /\ Respond("delete_expense", 200, expense_id)

delete_expense(expense_id) ==
    /\ UNCHANGED <<participants, request, add_requests, split_call, settleVars>>
    /\ IF expense_id \notin {x.id : x \in expenses}
       THEN /\ Respond("delete_expense", 404, expense_id)
            /\ UNCHANGED <<expenses, expense_splits>>
       ELSE /\ expenses' = {x \in expenses : x.id # expense_id}
            /\ expense_splits' = expense_splits \ SplitsOf(expense_id)
            /\ Respond("delete_expense", 200, expense_id)

(***************************************************************************)
(* api/participants.py: add_participant.                                   *)
(***************************************************************************)
\* validators.validate_participant_limit raises ValueError at the limit
validate_participant_limit(current_count, max_count) == current_count < max_count

add_participant(name) ==
    /\ UNCHANGED <<expenses, expense_splits, request, add_requests, split_call,
                   settleVars>>
    /\ LET current_count == Cardinality(participants)
           existing_participant == \E p \in participants : p.name = name
       IN  IF ~validate_participant_limit(current_count, MaxParticipants)
           THEN /\ Respond("add_participant", 400, 0)
                /\ UNCHANGED participants
           ELSE IF existing_participant
           THEN /\ Respond("add_participant", 400, 0)
                /\ UNCHANGED participants
           ELSE /\ participants' = participants \cup
                       {[id |-> NewParticipantId(name), name |-> name]}
                /\ Respond("add_participant", 201, NewParticipantId(name))

(***************************************************************************)
(* api/participants.py: delete_participant.  The participant is resolved   *)
(* by the route's dependency, so the handler runs for stored participants. *)
(* A payer is refused; otherwise the row is deleted and, as the handler's  *)
(* docstring and the foreign key expense_splits.participant_id             *)
(* (ondelete CASCADE) state, the participant's splits go with it.          *)
(***************************************************************************)
\* a slip: the payer check is left out
delete_participant_unguarded(participant_id) ==
    /\ participant_id \in valid_participant_ids
    /\ UNCHANGED <<request, add_requests, split_call, settleVars>>
    /\ participants' = {p \in participants : p.id # participant_id}
    /\ expense_splits' =
          {s \in expense_splits : s.participant_id # participant_id}
    /\ UNCHANGED expenses
    /\ Respond("delete_participant", 200, participant_id)

\* a slip: the participant's splits stay behind
delete_participant_keeping_splits(participant_id) ==
    /\ participant_id \in valid_participant_ids
    /\ UNCHANGED <<request, add_requests, split_call, settleVars>>
    /\ IF Cardinality({x \in expenses : x.payer_id = participant_id}) > 0
       THEN /\ Respond("delete_participant", 400, participant_id)
            /\ UNCHANGED <<participants, expenses, expense_splits>>
       ELSE /\ participants' = {p \in participants : p.id # participant_id}
            /\ UNCHANGED <<expenses, expense_splits>>
            /\ Respond("delete_participant", 200, participant_id)

delete_participant(participant_id) ==
    /\ participant_id \in valid_participant_ids
    /\ UNCHANGED <<request, add_requests, split_call, settleVars>>
    /\ LET expense_count ==
               Cardinality({x \in expenses : x.payer_id = participant_id})
       IN  IF expense_count > 0
           THEN /\ Respond("delete_participant", 400, participant_id)
                /\ UNCHANGED <<participants, expenses, expense_splits>>
           ELSE /\ participants' = {p \in participants : p.id # participant_id}
                /\ expense_splits' =
                      {s \in expense_splits : s.participant_id # participant_id}
                /\ UNCHANGED expenses
                /\ Respond("delete_participant", 200, participant_id)

(***************************************************************************)
(* services/balance_service.py: calculate_participant_balances, computed   *)
(* from the three tables as the three queries of the code read them.       *)
(***************************************************************************)
\* a slip: the payer test is dropped, every expense counts as paid by everyone
total_paid_unfiltered(participant_id) == SumAmounts(expenses)

total_paid(participant_id) ==
    SumAmounts({x \in expenses : x.payer_id = participant_id})

total_share(participant_id) ==
    SumAmounts({s \in expense_splits : s.participant_id = participant_id})

calculate_participant_balances ==
    [p \in valid_participant_ids |->
        [total_paid |-> total_paid(p),
         total_share |-> total_share(p),
         net_balance |-> total_paid(p) - total_share(p)]]

\* a slip: every identifier the rows mention gets an entry
balance_keys_all_referenced ==
    valid_participant_ids \cup {x.payer_id : x \in expenses}
                          \cup {s.participant_id : s \in expense_splits}

\* the keys of the dict: balances[participant.id] = {...} for each participant
balance_keys == valid_participant_ids

RECURSIVE balance_entries(_)
\* the entries of the dict for the given keys, by increasing identifier
balance_entries(ids) ==
    IF ids = {} THEN <<>>
    ELSE LET p == CHOOSE x \in ids : \A y \in ids : x <= y
         IN  <<[participant_id |-> p,
                total_paid |-> total_paid(p),
                total_share |-> total_share(p),
                net_balance |-> total_paid(p) - total_share(p)]>>
             \o balance_entries(ids \ {p})

(***************************************************************************)
(* Spec: the requests of the API against one group, in any order.          *)
(***************************************************************************)
Amounts == {1, 9000}
SplitAmountInputs == {1, 4500}
PercentageInputs == {4999, 5000, 5001, 10000}

\* split lists of a request: longer ones than the group can hold only repeat
\* a participant, which a list of two already does
SplitsInputs(split_mode) ==
    LET entries ==
            IF split_mode = EQUAL
            THEN {[participant_id |-> p, amount |-> 1, percentage |-> None] :
                    p \in ParticipantIds}
            ELSE IF split_mode = CUSTOM_AMOUNT
            THEN {[participant_id |-> p, amount |-> a, percentage |-> None] :
                     p \in ParticipantIds, a \in SplitAmountInputs}
            ELSE {[participant_id |-> p, amount |-> 1, percentage |-> q] :
                     p \in ParticipantIds, q \in PercentageInputs}
    IN  UNION {[1..n -> entries] : n \in 0..Len(Names)}

Init ==
    /\ participants = {}
    /\ expenses = {}
    /\ expense_splits = {}
    /\ response = NoResponse
    /\ request = NoRequest
    /\ add_requests = <<>>
    /\ SplitIdle
    /\ SettleIdle

Next ==
    \/ \E name \in {Names[k] : k \in 1..Len(Names)} : add_participant(name)
    \/ \E amount \in Amounts, payer_id \in ParticipantIds,
          split_mode \in SplitModes :
          \E splits_data \in SplitsInputs(split_mode) :
             /\ Cardinality(expenses) < MaxExpenses
             /\ create_expense(amount, payer_id, split_mode, splits_data)
    \/ \E expense_id \in ExpenseIds : delete_expense(expense_id)
    \/ \E participant_id \in ParticipantIds : delete_participant(participant_id)

Spec == Init /\ [][Next]_vars

(***************************************************************************)
(* SpecCreate: one POST expense request, drawn with the group it is sent   *)
(* to, handled by create_expense (and handled again when the client sends  *)
(* it again).                                                              *)
(***************************************************************************)
RequestSplitAmounts == {1, 4500, 8999}
\* 100.01 is above the schema's le=100; 0 is its lower end; None is absent
RequestPercentages == {None, 0, 4999, 5000, 5001, 10000, 10001}

RequestSplits(split_mode) ==
    LET entries ==
            IF split_mode = EQUAL
            THEN {[participant_id |-> p, amount |-> 1, percentage |-> None] :
                    p \in ParticipantIds}
            ELSE IF split_mode = CUSTOM_AMOUNT
            THEN {[participant_id |-> p, amount |-> a, percentage |-> None] :
                     p \in ParticipantIds, a \in RequestSplitAmounts}
            ELSE {[participant_id |-> p, amount |-> 1, percentage |-> q] :
                     p \in ParticipantIds, q \in RequestPercentages}
    IN  UNION {[1..n -> entries] : n \in 0..Len(Names)}

Requests ==
    UNION {[amount : Amounts, payer_id : ParticipantIds,
            split_mode : {split_mode}, splits : RequestSplits(split_mode)] :
              split_mode \in SplitModes}

\* the groups that add_participant and delete_participant can build
Groups == SUBSET {[id |-> k, name |-> Names[k]] : k \in ParticipantIds}

\* an expense stored earlier: 90.00 paid by a member, split equally among
\* the members
StoredExpense(payer_id) ==
    [id |-> 1, amount |-> 9000, payer_id |-> payer_id, split_mode |-> EQUAL]
StoredSplits(group) ==
    LET members == {p.id : p \in group}
        rank(q) == Cardinality({m \in members : m <= q})
    IN  {SplitRow(1, q, split_amount_equally(9000, Cardinality(members))[rank(q)],
                  None) : q \in members}

InitCreate ==
    /\ participants \in Groups
    /\ \/ expenses = {} /\ expense_splits = {}
       \/ \E payer \in participants :
             /\ expenses = {StoredExpense(payer.id)}
             /\ expense_splits = StoredSplits(participants)
    /\ response = NoResponse
    /\ request \in Requests
    /\ add_requests = <<>>
    /\ SplitIdle
    /\ SettleIdle

\* POST /groups/{group_id}/expenses with body expense_data = request
post_expense ==
    create_expense(request.amount, request.payer_id, request.split_mode,
                   request.splits)

NextCreate == post_expense

SpecCreate == InitCreate /\ [][NextCreate]_vars

(***************************************************************************)
(* SpecBalances: calculate_participant_balances on the rows its three      *)
(* queries return.  The queries are separate statements, so the expenses   *)
(* and splits read may mention a participant that the participants read    *)
(* did not return.                                                         *)
(***************************************************************************)
SnapshotExpenses ==
    LET rows(e) == {{}} \cup
            {{[id |-> e, amount |-> a, payer_id |-> p, split_mode |-> CUSTOM_AMOUNT]} :
                a \in {e, 9000}, p \in ParticipantIds}
    IN  {r1 \cup r2 : r1 \in rows(1), r2 \in rows(2)}

SnapshotSplits(expense_rows) ==
    LET slots == {x.id : x \in expense_rows} \X ParticipantIds
        amounts == {0, 3, 4500}
    IN  {{SplitRow(sl[1], sl[2], f[sl], None) : sl \in {q \in slots : f[q] # 0}} :
            f \in [slots -> amounts]}

InitBalances ==
    /\ participants \in Groups
    /\ expenses \in SnapshotExpenses
    /\ expense_splits \in SnapshotSplits(expenses)
    /\ response = NoResponse
    /\ request = NoRequest
    /\ add_requests = <<>>
    /\ SplitIdle
    /\ SettleIdle

\* balances = BalanceService.calculate_participant_balances(group.id, db)
call_calculate_participant_balances ==
    /\ pc \in {"idle", "start"}
    /\ balances' = balance_entries(balance_keys)
    /\ pc' = "start"
    /\ UNCHANGED <<snapshots, creditors, debtors, i, j, settlements, group_balance,
                   ledgerVars, split_call>>

NextBalances == call_calculate_participant_balances

SpecBalances == InitBalances /\ [][NextBalances]_vars

(***************************************************************************)
(* SpecRoundTrip: a client reads the balances of a group, posts one        *)
(* expense and, when it was created, deletes it again; nothing else writes *)
(* in between.  balances keeps what the read returned.                     *)
(***************************************************************************)
NextRoundTrip ==
    \/ /\ response = NoResponse
       /\ call_calculate_participant_balances
    \/ /\ pc = "start"
       /\ response = NoResponse
       /\ post_expense
    \/ /\ response.op = "create_expense"
       /\ response.status = 201
       /\ delete_expense(response.id)

SpecRoundTrip == InitCreate /\ [][NextRoundTrip]_vars

(***************************************************************************)
(* SpecQuery: calculate_participant_balances query by query, while another *)
(* request creates or deletes an expense of the same group.  The session   *)
(* runs at the engine's default isolation level (database.py creates the   *)
(* engine without isolation_level; PostgreSQL's default is READ            *)
(* COMMITTED), so every query sees the rows committed when it starts; the  *)
(* other request's rows appear all at once at its commit.                  *)
(***************************************************************************)
\* db.query(Participant)...all() and the initialisation of balances
query_participants ==
    /\ pc = "idle"
    /\ LET entries == balance_entries(balance_keys)
       IN  balances' = [k \in 1..Len(entries) |->
                           [entries[k] EXCEPT !.total_paid = 0,
                                              !.total_share = 0,
                                              !.net_balance = 0]]
    /\ snapshots' = {balance_entries(balance_keys)}
    /\ pc' = "participants"
    /\ UNCHANGED <<creditors, debtors, i, j, settlements, group_balance,
                   ledgerVars, split_call>>

\* db.query(Expense)...all() and the loop adding to total_paid
query_expenses ==
    /\ pc = "participants"
    /\ balances' = [k \in 1..Len(balances) |->
                       [balances[k] EXCEPT
                           !.total_paid = @ + total_paid(balances[k].participant_id)]]
    /\ snapshots' = snapshots \cup {balance_entries(balance_keys)}
    /\ pc' = "expenses"
    /\ UNCHANGED <<creditors, debtors, i, j, settlements, group_balance,
                   ledgerVars, split_call>>

\* db.query(ExpenseSplit).join(Expense)...all(), the loop adding to
\* total_share, the net balances and the return
query_splits ==
    /\ pc = "expenses"
    /\ balances' = [k \in 1..Len(balances) |->
                       LET share == balances[k].total_share
                                    + total_share(balances[k].participant_id)
                       IN  [balances[k] EXCEPT
                               !.total_share = share,
                               !.net_balance = balances[k].total_paid - share]]
    /\ snapshots' = snapshots \cup {balance_entries(balance_keys)}
    /\ pc' = "start"
    /\ UNCHANGED <<creditors, debtors, i, j, settlements, group_balance,
                   ledgerVars, split_call>>

NextQuery ==
    \/ query_participants
    \/ query_expenses
    \/ query_splits
    \/ /\ response = NoResponse
       /\ post_expense
    \/ /\ response = NoResponse
       /\ \E x \in expenses : delete_expense(x.id)

SpecQuery == InitCreate /\ [][NextQuery]_vars

(***************************************************************************)
(* SpecAdd: MaxRequests add_participant requests handled at the same time, *)
(* each in its own worker thread and database session (the handler is a    *)
(* plain def, which FastAPI runs in its thread pool).  A request advances  *)
(* by its statements that reach the database: the count query, the name    *)
(* query, db.add and db.commit.  No statement locks the group, and the     *)
(* only constraint on table participants is uq_group_participant_name.     *)
(***************************************************************************)
\* the group has the first n names already
GroupOfSize(n) == {[id |-> k, name |-> AllNames[k]] : k \in 1..n}

\* names asked for: one that every drawn group of size >= 1 has, and new ones
AddNames == {AllNames[k] : k \in {1} \cup ((MaxParticipants + 1)..Len(AllNames))}

InitAdd ==
    /\ \E n \in 0..MaxParticipants : participants = GroupOfSize(n)
    /\ expenses = {}
    /\ expense_splits = {}
    /\ response = NoResponse
    /\ request = NoRequest
    /\ add_requests \in [1..MaxRequests ->
                           [name : AddNames, pc : {"received"},
                            current_count : {0}, status : {0}]]
    /\ SplitIdle
    /\ SettleIdle

AddStep(r, next) ==
    /\ add_requests' = [add_requests EXCEPT ![r] = next]
    /\ UNCHANGED <<expenses, expense_splits, response, request, split_call,
                   settleVars>>

\* current_count = db.query(Participant).filter(...).count(), then
\* validate_participant_limit(current_count, max_count=4)
add_count(r) ==
    /\ add_requests[r].pc = "received"
    /\ LET current_count == Cardinality(participants)
       IN  IF ~validate_participant_limit(current_count, MaxParticipants)
           THEN AddStep(r, [add_requests[r] EXCEPT
                               !.current_count = current_count,
                               !.pc = "done", !.status = 400])
           ELSE AddStep(r, [add_requests[r] EXCEPT
                               !.current_count = current_count,
                               !.pc = "counted"])
    /\ UNCHANGED participants

\* existing_participant = db.query(Participant).filter(name == ...).first()
add_check_name(r) ==
    /\ add_requests[r].pc = "counted"
    /\ IF \E p \in participants : p.name = add_requests[r].name
       THEN AddStep(r, [add_requests[r] EXCEPT !.pc = "done", !.status = 400])
       ELSE AddStep(r, [add_requests[r] EXCEPT !.pc = "checked"])
    /\ UNCHANGED participants

\* db.add(new_participant): the row is pending in the request's session
add_insert(r) ==
    /\ add_requests[r].pc = "checked"
    /\ AddStep(r, [add_requests[r] EXCEPT !.pc = "added"])
    /\ UNCHANGED participants

\* db.commit(): the INSERT is flushed and committed, unless the name has
\* been committed meanwhile (IntegrityError, answered 500)
add_commit(r) ==
    /\ add_requests[r].pc = "added"
    /\ IF \E p \in participants : p.name = add_requests[r].name
       THEN /\ AddStep(r, [add_requests[r] EXCEPT !.pc = "done", !.status = 500])
            /\ UNCHANGED participants
       ELSE /\ AddStep(r, [add_requests[r] EXCEPT !.pc = "done", !.status = 201])
            /\ participants' = participants \cup
                  {[id |-> NewParticipantId(add_requests[r].name),
                    name |-> add_requests[r].name]}

NextAdd ==
    \E r \in 1..MaxRequests :
        \/ add_count(r)
        \/ add_check_name(r)
        \/ add_insert(r)
        \/ add_commit(r)

SpecAdd == InitAdd /\ [][NextAdd]_vars

(***************************************************************************)
(* services/balance_service.py: generate_settlement_suggestions and        *)
(* is_group_settled on a balance mapping.  The mapping is the sequence of  *)
(* its entries in enumeration order (a dict keeps insertion order).        *)
(***************************************************************************)
\* a slip: a zero balance is taken for a creditor
IsCreditorFromZero(net_balance) == net_balance >= 0

\* net_balance > Decimal("0.01")
IsCreditor(net_balance) == net_balance > Tolerance

\* net_balance < Decimal("-0.01")
IsDebtor(net_balance) == net_balance < -Tolerance

RECURSIVE Partition(_, _)
\* the creditors (want = "creditors") or debtors of a mapping, in its order,
\* each with amount = net_balance or abs(net_balance)
Partition(mapping, want) ==
    IF mapping = <<>> THEN <<>>
    ELSE LET b == Head(mapping)
             rest == Partition(Tail(mapping), want)
         IN  IF want = "creditors" /\ IsCreditor(b.net_balance)
             THEN <<[id |-> b.participant_id, amount |-> b.net_balance]>> \o rest
             ELSE IF want = "debtors" /\ ~IsCreditor(b.net_balance)
                     /\ IsDebtor(b.net_balance)
             THEN <<[id |-> b.participant_id, amount |-> Abs(b.net_balance)]>>
                  \o rest
             ELSE rest

RECURSIVE InsertDescBeforeTies(_, _)
\* a slip: x is put in front of the elements equal to it (an unstable sort)
InsertDescBeforeTies(x, s) ==
    IF s = <<>> THEN <<x>>
    ELSE IF Head(s).amount > x.amount
    THEN <<Head(s)>> \o InsertDescBeforeTies(x, Tail(s))
    ELSE <<x>> \o s

RECURSIVE InsertDesc(_, _)
\* x put into the descending list s behind every element that is >= x
InsertDesc(x, s) ==
    IF s = <<>> THEN <<x>>
    ELSE IF Head(s).amount >= x.amount THEN <<Head(s)>> \o InsertDesc(x, Tail(s))
    ELSE <<x>> \o s

\* a slip: the lists are left in enumeration order
Unsorted(s) == s

RECURSIVE SortDesc(_)
\* list.sort(key=amount, reverse=True): descending and stable
SortDesc(s) ==
    IF s = <<>> THEN <<>>
    ELSE InsertDesc(s[Len(s)], SortDesc(SubSeq(s, 1, Len(s) - 1)))

\* a slip: max where the code takes min
settle_amount_max(creditor_amount, debtor_amount) ==
    Max(creditor_amount, debtor_amount)

\* settle_amount = min(creditor["amount"], debtor["amount"])
settle_amount(creditor_amount, debtor_amount) ==
    Min(creditor_amount, debtor_amount)

\* lines 171-199: partition, sort, settlements = [], i, j = 0, 0
settle_start ==
    /\ pc = "start"
    /\ creditors' = SortDesc(Partition(balances, "creditors"))
    /\ debtors' = SortDesc(Partition(balances, "debtors"))
    /\ settlements' = <<>>
    /\ i' = 0
    /\ j' = 0
    /\ pc' = "loop"
    /\ UNCHANGED <<snapshots, balances, group_balance, ledgerVars, split_call>>

\* a slip: a pointer moves on only below zero
exhausted_below_zero(amount) == amount < 0

\* if creditor["amount"] < Decimal("0.01") (and the same for the debtor)
exhausted(amount) == amount < Tolerance

\* a slip: the two lists hold the mapping's own entries, so that the loop
\* subtracts each settled amount from the caller's net balances as well
settle_step_in_place ==
    /\ pc = "loop"
    /\ i < Len(creditors) /\ j < Len(debtors)
    /\ LET creditor == creditors[i + 1]
           debtor == debtors[j + 1]
           amount == settle_amount(creditor.amount, debtor.amount)
       IN  /\ settlements' = Append(settlements,
                 [from_participant_id |-> debtor.id,
                  to_participant_id |-> creditor.id,
                  amount |-> amount])
           /\ creditors' = [creditors EXCEPT ![i + 1].amount = @ - amount]
           /\ debtors' = [debtors EXCEPT ![j + 1].amount = @ - amount]
           /\ i' = IF exhausted(creditor.amount - amount) THEN i + 1 ELSE i
           /\ j' = IF exhausted(debtor.amount - amount) THEN j + 1 ELSE j
           /\ balances' =
                 [k \in 1..Len(balances) |->
                    IF balances[k].participant_id = creditor.id
                    THEN [balances[k] EXCEPT !.net_balance = @ - amount]
                    ELSE IF balances[k].participant_id = debtor.id
                    THEN [balances[k] EXCEPT !.net_balance = @ + amount]
                    ELSE balances[k]]
    /\ UNCHANGED <<snapshots, pc, group_balance, ledgerVars, split_call>>

\* one iteration of the while loop (lines 201-226)
settle_step ==
    /\ pc = "loop"
    /\ i < Len(creditors) /\ j < Len(debtors)
    /\ LET creditor == creditors[i + 1]
           debtor == debtors[j + 1]
           amount == settle_amount(creditor.amount, debtor.amount)
       IN  /\ settlements' = Append(settlements,
                 [from_participant_id |-> debtor.id,
                  to_participant_id |-> creditor.id,
                  amount |-> amount])
           /\ creditors' = [creditors EXCEPT ![i + 1].amount = @ - amount]
           /\ debtors' = [debtors EXCEPT ![j + 1].amount = @ - amount]
           /\ i' = IF exhausted(creditor.amount - amount) THEN i + 1 ELSE i
           /\ j' = IF exhausted(debtor.amount - amount) THEN j + 1 ELSE j
    /\ UNCHANGED <<snapshots, balances, pc, group_balance, ledgerVars, split_call>>

\* the loop condition fails: return settlements (line 228)
settle_return ==
    /\ pc = "loop"
    /\ ~(i < Len(creditors) /\ j < Len(debtors))
    /\ pc' = "done"
    /\ UNCHANGED <<snapshots, balances, creditors, debtors, i, j, settlements,
                   group_balance, ledgerVars, split_call>>

\* api/balances.py get_settlement_suggestions: total_amount += amount
total_amount == SumSeq([k \in 1..Len(settlements) |-> settlements[k].amount])

\* a slip: a balance of one cent already counts as unsettled
is_group_settled_below_tolerance(mapping) ==
    \A k \in 1..Len(mapping) : ~(Abs(mapping[k].net_balance) >= Tolerance)

\* is_group_settled: no entry with abs(net_balance) > Decimal("0.01")
is_group_settled(mapping) ==
    \A k \in 1..Len(mapping) : ~(Abs(mapping[k].net_balance) > Tolerance)

RECURSIVE matrix_loop(_, _, _, _, _)
\* generate_balance_matrix, lines 120-141: for debtor in debtors: for creditor
\* in creditors, from the d-th debtor and c-th creditor on; the loops work
\* on the dicts of the two lists that the function built itself
matrix_loop(ds, cs, d, c, edges) ==
    IF d > Len(ds) THEN edges
    ELSE IF c > Len(cs) THEN matrix_loop(ds, cs, d + 1, 1, edges)
    ELSE IF ds[d].amount > Tolerance /\ cs[c].amount > Tolerance
    THEN LET transfer_amount == Min(ds[d].amount, cs[c].amount)
         IN  matrix_loop([ds EXCEPT ![d].amount = @ - transfer_amount],
                         [cs EXCEPT ![c].amount = @ - transfer_amount],
                         d, c + 1,
                         Append(edges,
                                [from_participant_id |-> ds[d].id,
                                 to_participant_id |-> cs[c].id,
                                 amount |-> transfer_amount]))
    ELSE matrix_loop(ds, cs, d, c + 1, edges)

\* a slip: the two lists are taken the other way round
generate_balance_matrix_from_creditors(mapping) ==
    matrix_loop(Partition(mapping, "creditors"), Partition(mapping, "debtors"),
                1, 1, <<>>)

\* generate_balance_matrix: creditors and debtors in enumeration order
generate_balance_matrix(mapping) ==
    matrix_loop(Partition(mapping, "debtors"), Partition(mapping, "creditors"),
                1, 1, <<>>)

(***************************************************************************)
(* api/balances.py: get_group_balances hands its mapping to                *)
(* generate_balance_matrix and to is_group_settled.  Neither assigns into  *)
(* the mapping or into one of its entries.                                 *)
(***************************************************************************)
call_generate_balance_matrix ==
    /\ pc # "idle"
    /\ group_balance' =
          [group_balance EXCEPT !.matrix_called = TRUE,
                                !.balance_matrix = generate_balance_matrix(balances)]
    /\ UNCHANGED <<snapshots, balances, creditors, debtors, i, j, settlements, pc,
                   ledgerVars, split_call>>

call_is_group_settled ==
    /\ pc # "idle"
    /\ group_balance' =
          [group_balance EXCEPT !.settled_called = TRUE,
                                !.is_settled = is_group_settled(balances)]
    /\ UNCHANGED <<snapshots, balances, creditors, debtors, i, j, settlements, pc,
                   ledgerVars, split_call>>

(***************************************************************************)
(* SpecSettle: generate_settlement_suggestions on drawn balance mappings   *)
(* of groups of up to MaxParticipants participants.                        *)
(***************************************************************************)
BalanceMappings ==
    UNION {[1..n -> -MaxBal..MaxBal] : n \in 0..MaxParticipants}

InitSettle ==
    /\ LedgerIdle
    /\ SplitIdle
    /\ \E nets \in BalanceMappings :
          balances = [k \in 1..Len(nets) |->
                         [participant_id |-> k, net_balance |-> nets[k]]]
    /\ creditors = <<>>
    /\ debtors = <<>>
    /\ i = 0
    /\ j = 0
    /\ settlements = <<>>
    /\ pc = "start"
    /\ group_balance = NoGroupBalance
    /\ snapshots = {}

NextSettle ==
    \/ settle_start
    \/ settle_step
    \/ settle_return
    \/ call_generate_balance_matrix
    \/ call_is_group_settled

SpecSettle == InitSettle /\ [][NextSettle]_vars

\* services/balance_service.py generate_settlement_suggestions, one call on
\* its own: a function that is called keeps executing, so its next step is
\* taken whenever there is one
NextSuggestions ==
    \/ settle_start
    \/ settle_step
    \/ settle_return

SpecSuggestions ==
    /\ InitSettle
    /\ [][NextSuggestions]_vars
    /\ WF_vars(NextSuggestions)

(***************************************************************************)
(* Properties.                                                             *)
(***************************************************************************)
AllSplitsExact ==
    \A e \in expenses : SumAmounts(SplitsOf(e.id)) = e.amount

AllReferencesInGroup ==
    /\ \A e \in expenses : e.payer_id \in valid_participant_ids
    /\ \A s \in expense_splits : s.participant_id \in valid_participant_ids

RECURSIVE SumNetBalances(_, _)
\* sum of net_balance over the participants ids of a balances dict
SumNetBalances(dict, ids) ==
    IF ids = {} THEN 0
    ELSE LET p == CHOOSE x \in ids : TRUE
         IN  dict[p].net_balance + SumNetBalances(dict, ids \ {p})

GroupNetSum ==
    SumNetBalances(calculate_participant_balances, valid_participant_ids)

\* the net balances of a mapping, and the amounts of a plan, as sequences
Nets(mapping) == [k \in 1..Len(mapping) |-> mapping[k].net_balance]
SumsToZero(mapping) == SumSeq(Nets(mapping)) = 0
TotalOwed(mapping) ==
    SumSeq([k \in 1..Len(mapping) |-> Max(0, mapping[k].net_balance)])
NoCentBalance(mapping) ==
    \A k \in 1..Len(mapping) : Abs(mapping[k].net_balance) # Tolerance

\* a transfer applied: the debtor's net balance goes up by the amount, the
\* creditor's goes down by it
NetAfter(mapping, plan, k) ==
    mapping[k].net_balance
    + SumSeq([t \in 1..Len(plan) |->
                 IF plan[t].from_participant_id = mapping[k].participant_id
                 THEN plan[t].amount ELSE 0])
    - SumSeq([t \in 1..Len(plan) |->
                 IF plan[t].to_participant_id = mapping[k].participant_id
                 THEN plan[t].amount ELSE 0])

ApplyPlan(mapping, plan) ==
    [k \in 1..Len(mapping) |->
        [participant_id |-> mapping[k].participant_id,
         net_balance |-> NetAfter(mapping, plan, k)]]

ZeroesAll(mapping, plan) ==
    \A k \in 1..Len(mapping) : NetAfter(mapping, plan, k) = 0

\* every transfer between two different participants of the mapping
TransfersOf(mapping) ==
    {[from_participant_id |-> f, to_participant_id |-> t, amount |-> a] :
        f \in 1..Len(mapping), t \in 1..Len(mapping),
        a \in 1..TotalOwed(mapping)} \ 
    {[from_participant_id |-> f, to_participant_id |-> f, amount |-> a] :
        f \in 1..Len(mapping), a \in 1..TotalOwed(mapping)}

\* b is num / den rounded half to even, said without round_decimal
IsRoundHalfEven(b, num, den) ==
    LET d == Abs(den * b - num)
    IN  2 * d <= den /\ (2 * d = den => b % 2 = 0)

(* C1: for every positive amount and every participant count n in 1..4,   *)
(* split_amount_equally returns n shares whose sum is the amount, to the   *)
(* cent.                                                                   *)
C1_EqualSplitSumsToAmount ==
    (split_call.state = "returned"
        /\ split_call.num_participants \in 1..MaxParticipants) =>
       /\ Len(split_call.splits) = split_call.num_participants
       /\ SumSeq(split_call.splits) = split_call.amount

C1_Witness ==
    /\ split_call.state = "returned"
    /\ split_call.amount = 10000
    /\ split_call.num_participants = 3
    /\ split_call.splits = <<3334, 3333, 3333>>

(* C2: in every reachable state of the ledger the split amounts of every   *)
(* stored expense sum exactly to the expense's amount.                     *)
C2_SplitsSumToExpenseAmount == AllSplitsExact

(* C3: whenever create_expense accepts a request in percentage mode, the   *)
(* split amounts it stored sum exactly to the expense amount.              *)
C3_PercentageSplitsSumToAmount ==
    (response.op = "create_expense" /\ response.status = 201) =>
        \A e \in expenses :
            (e.id = response.id /\ e.split_mode = PERCENTAGE) =>
                SumAmounts(SplitsOf(e.id)) = e.amount

(* C4: in every reachable state of the ledger the net balances returned by *)
(* calculate_participant_balances sum to zero over the participants.       *)
C4_NetBalancesSumToZero == GroupNetSum = 0

(* C5: when the splits of every expense sum exactly to its amount and all  *)
(* payers and split participants are members of the group, the net         *)
(* balances of calculate_participant_balances sum to exactly zero.         *)
C5_ConservationOfExactSplits ==
    (AllSplitsExact /\ AllReferencesInGroup) => GroupNetSum = 0

C5_Witness ==
    /\ AllSplitsExact /\ AllReferencesInGroup
    /\ expenses # {}
    /\ \E p \in valid_participant_ids :
          calculate_participant_balances[p].net_balance > 0
    /\ \E p \in valid_participant_ids :
          calculate_participant_balances[p].net_balance < 0

(* C6 as stated: for every balance mapping whose net balances sum to zero, *)
(* the total of the settlement amounts equals the sum over the             *)
(* participants of max(0, net_balance).                                    *)
C6_TotalEqualsTotalOwed ==
    (pc = "done" /\ SumsToZero(balances)) =>
        total_amount = TotalOwed(balances)

(* C6 amended: the same, for the mappings summing to zero in which no      *)
(* participant's |net_balance| is exactly 0.01.                            *)
C6_TotalEqualsTotalOwedWithoutCents ==
    (pc = "done" /\ SumsToZero(balances) /\ NoCentBalance(balances)) =>
        total_amount = TotalOwed(balances)

C6_Witness ==
    /\ pc = "done"
    /\ SumsToZero(balances) /\ NoCentBalance(balances)
    /\ Len(balances) = 4
    /\ Len(settlements) = 3
    /\ total_amount = 6

(* C7: for every balance mapping whose net balances sum to zero, applying  *)
(* every settlement of the returned plan leaves the group settled: every   *)
(* |net_balance| is within the 0.01 tolerance.                             *)
C7_PlanSettlesGroup ==
    (pc = "done" /\ SumsToZero(balances)) =>
        is_group_settled(ApplyPlan(balances, settlements))

(* C8: for every balance mapping of up to 4 participants whose net         *)
(* balances sum to zero, no list of transfers that zeroes all net balances *)
(* has fewer entries than the returned plan.                               *)
C8_NoShorterZeroingPlan ==
    (pc = "done" /\ SumsToZero(balances)) =>
        \A m \in 0..(Len(settlements) - 1) :
            \A plan \in [1..m -> TransfersOf(balances)] :
                ~ZeroesAll(balances, plan)

C8_Witness ==
    /\ pc = "done"
    /\ SumsToZero(balances)
    /\ Len(balances) = 4
    /\ NoCentBalance(balances)
    /\ Len(settlements) = 3
    /\ ZeroesAll(balances, settlements)

(* C9: for every balance mapping, summing to zero or not, every settlement *)
(* emitted has an amount of at least 0.01.                                 *)
C9_SettlementAmountsPositive ==
    \A k \in 1..Len(settlements) : settlements[k].amount >= 1

C9_Witness ==
    /\ pc = "done"
    /\ ~SumsToZero(balances)
    /\ Len(settlements) = 2
    /\ \E k \in 1..Len(creditors) : creditors[k].amount = 1

(* C10: for every amount and n >= 1, split_amount_equally gives every      *)
(* participant but the first base = amount / n rounded half to even, and   *)
(* the first base plus the whole remainder amount - n * base, so at most   *)
(* one share differs from base; a repeated call returns the same list.     *)
C10_Shares ==
    (split_call.state = "returned" /\ split_call.num_participants >= 1) =>
        LET n == split_call.num_participants
            amount == split_call.amount
            splits == split_call.splits
        IN  \E base \in (amount \div n)..(amount \div n + 1) :
               /\ IsRoundHalfEven(base, amount, n)
               /\ Len(splits) = n
               /\ \A k \in 2..n : splits[k] = base
               /\ splits[1] = base + (amount - n * base)
               /\ Cardinality({k \in 1..n : splits[k] # base}) <= 1

C10_FirstAbsorbsRemainder ==
    /\ []C10_Shares
    /\ [][split_call.state = "returned" => split_call' = split_call]_vars

C10_Witness ==
    /\ split_call.state = "returned"
    /\ split_call.amount = 1000
    /\ split_call.num_participants = 3
    /\ split_call.splits = <<334, 333, 333>>

(***************************************************************************)
(* Requests as SpecCreate keeps them.                                      *)
(***************************************************************************)
RequestAnswered == response.op = "create_expense"
Accepted == RequestAnswered /\ response.status = 201
Rejected == RequestAnswered /\ response.status # 201
RequestAmountsOf == [k \in 1..Len(request.splits) |-> request.splits[k].amount]
RequestPercentagesOf ==
    [k \in 1..Len(request.splits) |-> request.splits[k].percentage]
\* the request passes the schema and names a payer and split participants
\* of the group, so that the validation of its split mode is reached
ReachesModeValidation ==
    /\ Len(request.splits) >= 1
    /\ \A k \in 1..Len(request.splits) :
          /\ request.splits[k].amount > 0
          /\ request.splits[k].percentage \in {None} \cup (0..Hundred)
          /\ request.splits[k].participant_id \in valid_participant_ids
    /\ request.payer_id \in valid_participant_ids
\* no participant is named by two entries of the request
DistinctParticipants ==
    \A a, b \in 1..Len(request.splits) :
        request.splits[a].participant_id = request.splits[b].participant_id
        => a = b

(***************************************************************************)
(* C11: a custom_amount request is accepted only if its split amounts sum  *)
(* exactly to the expense amount, and is accepted whenever they do and the *)
(* request reaches the mode's validation with distinct participants; when  *)
(* accepted, the stored splits carry exactly the provided amounts; when    *)
(* the sums differ the request is rejected, and the error of the mode's    *)
(* validation reports both sums.                                           *)
(***************************************************************************)
C11_CustomAmountsMustSumExactly ==
    (RequestAnswered /\ request.split_mode = CUSTOM_AMOUNT) =>
        LET splits_sum == SumSeq(RequestAmountsOf)
        IN  /\ Accepted => splits_sum = request.amount
            /\ (splits_sum = request.amount /\ ReachesModeValidation
                   /\ DistinctParticipants) => Accepted
            /\ Accepted =>
                  SplitsOf(response.id) =
                     {SplitRow(response.id, request.splits[k].participant_id,
                               request.splits[k].amount, None) :
                        k \in 1..Len(request.splits)}
            /\ splits_sum # request.amount => Rejected
            /\ (splits_sum # request.amount /\ ReachesModeValidation) =>
                  /\ response.status = 400
                  /\ response.detail.args = <<splits_sum, request.amount>>

\* accepted with unequal provided amounts, stored as provided
C11_Witness ==
    /\ Accepted
    /\ request.split_mode = CUSTOM_AMOUNT
    /\ request.amount = 9000
    /\ RequestAmountsOf = <<8999, 1>>
    /\ {s.amount : s \in SplitsOf(response.id)} = {8999, 1}

(***************************************************************************)
(* C12: whenever create_expense fails (payer or split participant not in   *)
(* the group, custom amounts not summing to the total, percentages outside *)
(* the tolerance, or any other failure), the expenses, the splits and      *)
(* every participant's balances are after the call what they were before   *)
(* it, although the expense row was flushed before the validation.         *)
(***************************************************************************)
C12_FailedCreateStoresNothing ==
    [][(response'.op = "create_expense" /\ response'.status # 201) =>
          /\ participants' = participants
          /\ expenses' = expenses
          /\ expense_splits' = expense_splits
          /\ calculate_participant_balances' = calculate_participant_balances
      ]_vars

\* a request refused after the flush, by the custom amount validation,
\* against a group with a stored expense and balances that are not zero
C12_Witness ==
    /\ Rejected
    /\ response.status = 400
    /\ response.detail.message = "Splits sum doesn't match total"
    /\ expenses = {StoredExpense(1)}
    /\ calculate_participant_balances[1].net_balance = 4500
    /\ calculate_participant_balances[2].net_balance = -4500

(***************************************************************************)
(* C13: a percentage request is rejected whenever the sum of its           *)
(* percentages lies outside [99.99, 100.01], with an error naming the sum  *)
(* when the mode's validation is reached; every list whose sum differs     *)
(* from 100 by at most 0.01 is accepted when the request reaches the       *)
(* mode's validation with distinct participants; so such a request is      *)
(* rejected if and only if the sum is outside the interval.                *)
(***************************************************************************)
C13_PercentagesWithinTolerance ==
    (/\ RequestAnswered
     /\ request.split_mode = PERCENTAGE
     /\ \A k \in 1..Len(request.splits) : request.splits[k].percentage # None)
    =>
        LET total_percentage == SumSeq(RequestPercentagesOf)
            inside == total_percentage \in (Hundred - 1)..(Hundred + 1)
        IN  /\ ~inside => Rejected
            /\ (~inside /\ ReachesModeValidation) =>
                  /\ response.status = 400
                  /\ response.detail.args = <<total_percentage>>
            /\ (ReachesModeValidation /\ DistinctParticipants) =>
                  (Rejected <=> ~inside)

\* 49.99 % + 50.00 % = 99.99 % is accepted
C13_Witness ==
    /\ Accepted
    /\ request.split_mode = PERCENTAGE
    /\ RequestPercentagesOf = <<4999, 5000>>
    /\ Cardinality(SplitsOf(response.id)) = 2

(***************************************************************************)
(* C14: a percentage request with an entry whose percentage is 0, or that  *)
(* carries no percentage, is rejected (and so stores nothing): every entry *)
(* must carry a percentage in (0, 100].                                    *)
(***************************************************************************)
C14_PercentageEntriesInRange ==
    (/\ RequestAnswered
     /\ request.split_mode = PERCENTAGE
     /\ \E k \in 1..Len(request.splits) :
           request.splits[k].percentage \in {0, None})
    => /\ Rejected
       /\ \A s \in expense_splits : s.percentage # 0

(***************************************************************************)
(* C15: is_group_settled returns true if and only if every participant's   *)
(* |net_balance| is at most 0.01: balances of exactly +0.01 and -0.01      *)
(* count as settled, one of 0.02 or more makes the group not settled.      *)
(***************************************************************************)
C15_SettledIffWithinCent ==
    group_balance.settled_called =>
        /\ group_balance.is_settled <=>
              \A k \in 1..Len(balances) : balances[k].net_balance \in {-1, 0, 1}
        /\ (\E k \in 1..Len(balances) :
               balances[k].net_balance >= 2 \/ balances[k].net_balance <= -2)
              => ~group_balance.is_settled

\* a group with balances of +0.01 and -0.01 is reported settled
C15_Witness ==
    /\ group_balance.settled_called
    /\ group_balance.is_settled
    /\ \E k \in 1..Len(balances) : balances[k].net_balance = 1
    /\ \E k \in 1..Len(balances) : balances[k].net_balance = -1

RECURSIVE SumWhere(_, _, _)
\* sum of the amounts of the rows whose field names the participant
SumWhere(rows, field, participant_id) ==
    IF rows = {} THEN 0
    ELSE LET r == CHOOSE x \in rows : TRUE
         IN  (IF r[field] = participant_id THEN r.amount ELSE 0)
             + SumWhere(rows \ {r}, field, participant_id)

(***************************************************************************)
(* C16: calculate_participant_balances returns one entry per participant   *)
(* of the group and no other; its total_paid is the sum of the amounts of  *)
(* the expenses that participant paid, its total_share the sum of the      *)
(* amounts of that participant's splits, its net_balance their difference. *)
(* An expense or split naming an identifier that is not a participant      *)
(* contributes to nobody's totals and adds no entry.                       *)
(***************************************************************************)
C16_BalancesPerParticipant ==
    pc = "start" =>
        /\ Len(balances) = Cardinality(participants)
        /\ {balances[k].participant_id : k \in 1..Len(balances)}
              = {p.id : p \in participants}
        /\ \A k \in 1..Len(balances) :
              LET b == balances[k]
              IN  /\ b.total_paid = SumWhere(expenses, "payer_id", b.participant_id)
                  /\ b.total_share =
                        SumWhere(expense_splits, "participant_id", b.participant_id)
                  /\ b.net_balance = b.total_paid - b.total_share

\* Ann alone is in the participant list; Bob paid an expense and has a split
C16_Witness ==
    /\ pc = "start"
    /\ {p.id : p \in participants} = {1}
    /\ \E x \in expenses : x.payer_id = 2
    /\ \E s \in expense_splits : s.participant_id = 2
    /\ Len(balances) = 1
    /\ balances[1].total_paid = 9000
    /\ balances[1].total_share = 4500
    /\ balances[1].net_balance = 4500

(***************************************************************************)
(* C17: in every reachable state, also of add_participant requests whose   *)
(* steps (count check, duplicate-name check, insert, commit) interleave,   *)
(* the group has at most 4 participants; a request that counts 4           *)
(* participants is rejected.                                               *)
(***************************************************************************)
C17_AtMostFourParticipants ==
    /\ Cardinality(participants) <= MaxParticipants
    /\ \A r \in 1..Len(add_requests) :
          (add_requests[r].pc = "done" /\ add_requests[r].current_count >= MaxParticipants)
             => add_requests[r].status = 400

(***************************************************************************)
(* C18: generate_balance_matrix, generate_settlement_suggestions and       *)
(* is_group_settled leave the balances mapping handed to them unchanged:   *)
(* no step of any of them changes an entry of the caller's mapping, in     *)
(* whatever order they are called, and a repeated call of                  *)
(* generate_balance_matrix or is_group_settled returns what the earlier    *)
(* call returned.                                                          *)
(***************************************************************************)
C18_BalancesMappingUnchanged ==
    [][/\ balances' = balances
       /\ (group_balance.matrix_called /\ group_balance'.matrix_called) =>
             group_balance'.balance_matrix = group_balance.balance_matrix
       /\ (group_balance.settled_called /\ group_balance'.settled_called) =>
             group_balance'.is_settled = group_balance.is_settled
      ]_vars

\* all three have been called on a mapping with several debts
C18_Witness ==
    /\ pc = "done"
    /\ Len(settlements) >= 2
    /\ group_balance.matrix_called
    /\ Len(group_balance.balance_matrix) >= 2
    /\ group_balance.settled_called
    /\ ~group_balance.is_settled
    /\ Nets(balances) = <<4, -2, -2>>

(***************************************************************************)
(* C19: the splits of an expense stay exactly as computed at its creation  *)
(* in every later state in which the expense exists: no step that keeps an *)
(* expense changes the set of its splits (participants and amounts); only  *)
(* deleting the expense removes them.                                      *)
(***************************************************************************)
C19_SplitsStayAsCreated ==
    [][\A x \in expenses :
          x \in expenses' =>
             {s \in expense_splits' : s.expense_id = x.id} = SplitsOf(x.id)
      ]_vars

(***************************************************************************)
(* C20: in every reachable state each participant appears at most once     *)
(* among the splits of any one expense; a create_expense request whose     *)
(* splits list names a participant twice is rejected and leaves the        *)
(* expenses and splits as they were stored before it: no expense with      *)
(* duplicate-participant splits and no partially stored expense.           *)
(***************************************************************************)
C20_ParticipantOncePerExpense ==
    /\ \A s, u \in expense_splits :
          (s.expense_id = u.expense_id /\ s.participant_id = u.participant_id)
             => s = u
    /\ \A x \in expenses :
          Cardinality(SplitsOf(x.id)) =
             Cardinality({s.participant_id : s \in SplitsOf(x.id)})
    /\ (RequestAnswered /\ ~DistinctParticipants) =>
          /\ Rejected
          /\ \/ expenses = {} /\ expense_splits = {}
             \/ \E payer \in participants :
                   /\ expenses = {StoredExpense(payer.id)}
                   /\ expense_splits = StoredSplits(participants)

\* Ann twice with custom amounts that sum to the total: refused at commit,
\* and only the expense stored earlier is there
C20_Witness ==
    /\ Rejected
    /\ response.status = 500
    /\ request.split_mode = CUSTOM_AMOUNT
    /\ request.amount = 9000
    /\ [k \in 1..Len(request.splits) |-> request.splits[k].participant_id]
          = <<1, 1>>
    /\ RequestAmountsOf = <<8999, 1>>
    /\ expenses = {StoredExpense(2)}
    /\ \A s \in expense_splits : s.expense_id = 1

(***************************************************************************)
(* The original credit and debt of a participant of the drawn mapping      *)
(* (its entries are enumerated by increasing participant_id).              *)
(***************************************************************************)
OriginalCredit(id) == balances[id].net_balance
OriginalDebt(id) == -balances[id].net_balance
\* list s is in descending order of the original amounts given by orig, ties
\* in enumeration order
DescendingStable(s, orig(_)) ==
    \A a, b \in 1..Len(s) :
        a < b => \/ orig(s[a].id) > orig(s[b].id)
                 \/ orig(s[a].id) = orig(s[b].id) /\ s[a].id < s[b].id

(***************************************************************************)
(* C22: in generate_settlement_suggestions the creditors (net_balance >    *)
(* 0.01) and the debtors (net_balance < -0.01) are each processed in       *)
(* descending order of amount, ties in the enumeration order of the        *)
(* mapping; each step pairs the creditor and the debtor at the pointers,   *)
(* which are the largest (by original amount) that still hold a            *)
(* remainder, for the minimum of their remainders; so the 'from'           *)
(* participants of successive settlements are non-increasing in original   *)
(* debt and the 'to' participants non-increasing in original credit.       *)
(***************************************************************************)
C22_Order ==
    pc \in {"loop", "done"} =>
        /\ {creditors[k].id : k \in 1..Len(creditors)} =
              {id \in 1..Len(balances) : balances[id].net_balance > 1}
        /\ {debtors[k].id : k \in 1..Len(debtors)} =
              {id \in 1..Len(balances) : balances[id].net_balance < -1}
        /\ DescendingStable(creditors, OriginalCredit)
        /\ DescendingStable(debtors, OriginalDebt)
        /\ \A k \in 1..Len(creditors) : k <= i => creditors[k].amount = 0
        /\ \A k \in 1..Len(debtors) : k <= j => debtors[k].amount = 0
        /\ i < Len(creditors) => creditors[i + 1].amount >= 1
        /\ j < Len(debtors) => debtors[j + 1].amount >= 1
        /\ \A t, u \in 1..Len(settlements) :
              t < u =>
                 /\ OriginalDebt(settlements[t].from_participant_id)
                       >= OriginalDebt(settlements[u].from_participant_id)
                 /\ OriginalCredit(settlements[t].to_participant_id)
                       >= OriginalCredit(settlements[u].to_participant_id)

C22_Step ==
    settlements' # settlements =>
        /\ pc = "loop" /\ i < Len(creditors) /\ j < Len(debtors)
        /\ settlements' =
              Append(settlements,
                     [from_participant_id |-> debtors[j + 1].id,
                      to_participant_id |-> creditors[i + 1].id,
                      amount |-> IF creditors[i + 1].amount <= debtors[j + 1].amount
                                 THEN creditors[i + 1].amount
                                 ELSE debtors[j + 1].amount])

C22_SortedGreedyPairing == []C22_Order /\ [][C22_Step]_vars

\* two creditors of 0.03 tie: the first enumerated is paid first
C22_Witness ==
    /\ pc = "done"
    /\ Nets(balances) = <<3, 3, -2, -4>>
    /\ settlements =
          <<[from_participant_id |-> 4, to_participant_id |-> 1, amount |-> 3],
            [from_participant_id |-> 4, to_participant_id |-> 2, amount |-> 1],
            [from_participant_id |-> 3, to_participant_id |-> 2, amount |-> 2]>>

(***************************************************************************)
(* C23: for every balance mapping whose net balances sum to zero, when the *)
(* loop of generate_settlement_suggestions has terminated the creditor     *)
(* pointer is past the last creditor and the debtor pointer past the last  *)
(* debtor, and no creditor or debtor holds a remainder of 0.01 or more.    *)
(***************************************************************************)
C23_ListsExhaustedTogether ==
    (pc = "done" /\ SumsToZero(balances)) =>
        /\ i = Len(creditors)
        /\ j = Len(debtors)
        /\ \A k \in 1..Len(creditors) : creditors[k].amount < 1
        /\ \A k \in 1..Len(debtors) : debtors[k].amount < 1

(***************************************************************************)
(* C24: for every balance mapping, generate_balance_matrix emits at most   *)
(* one edge per (debtor, creditor) pair, only from participants with       *)
(* net_balance < -0.01 to participants with net_balance > 0.01; every edge *)
(* amount is strictly positive; the edges leaving a debtor total at most   *)
(* that debtor's |net_balance| and the edges entering a creditor at most   *)
(* that creditor's net_balance; edges come debtor-major in enumeration     *)
(* order.                                                                  *)
(***************************************************************************)
C24_MatrixEdgesWithinBalances ==
    group_balance.matrix_called =>
        LET edges == group_balance.balance_matrix
            leaving(id) ==
                SumSeq([t \in 1..Len(edges) |->
                          IF edges[t].from_participant_id = id
                          THEN edges[t].amount ELSE 0])
            entering(id) ==
                SumSeq([t \in 1..Len(edges) |->
                          IF edges[t].to_participant_id = id
                          THEN edges[t].amount ELSE 0])
        IN  /\ \A t \in 1..Len(edges) :
                  /\ edges[t].from_participant_id \in 1..Len(balances)
                  /\ edges[t].to_participant_id \in 1..Len(balances)
                  /\ balances[edges[t].from_participant_id].net_balance < -1
                  /\ balances[edges[t].to_participant_id].net_balance > 1
                  /\ edges[t].amount > 0
            /\ \A t, u \in 1..Len(edges) :
                  t < u =>
                     \/ edges[t].from_participant_id < edges[u].from_participant_id
                     \/ /\ edges[t].from_participant_id = edges[u].from_participant_id
                        /\ edges[t].to_participant_id < edges[u].to_participant_id
            /\ \A id \in 1..Len(balances) :
                  /\ leaving(id) <= Max(0, -balances[id].net_balance)
                  /\ entering(id) <= Max(0, balances[id].net_balance)

\* two debtors and two creditors: one edge each, 0.01 of the second debtor
\* and of the first creditor stay without an edge
C24_Witness ==
    /\ group_balance.matrix_called
    /\ Nets(balances) = <<-3, -3, 4, 2>>
    /\ group_balance.balance_matrix =
          <<[from_participant_id |-> 1, to_participant_id |-> 3, amount |-> 3],
            [from_participant_id |-> 2, to_participant_id |-> 4, amount |-> 2]>>

(***************************************************************************)
(* C27: generate_settlement_suggestions terminates on every balance        *)
(* mapping: each loop iteration settles a positive amount and advances the *)
(* creditor pointer, the debtor pointer, or both; so the plan holds at     *)
(* most (number of creditors + number of debtors - 1) settlements when     *)
(* both lists are non-empty, and none when either is empty.                *)
(***************************************************************************)
C27_PlanBound ==
    pc \in {"loop", "done"} =>
        /\ (Len(creditors) = 0 \/ Len(debtors) = 0) => settlements = <<>>
        /\ (Len(creditors) > 0 /\ Len(debtors) > 0) =>
              Len(settlements) <= Len(creditors) + Len(debtors) - 1
        /\ i <= Len(creditors) /\ j <= Len(debtors)

C27_Iteration ==
    settlements' # settlements =>
        /\ Len(settlements') = Len(settlements) + 1
        /\ settlements'[Len(settlements')].amount > 0
        /\ i' \in {i, i + 1} /\ j' \in {j, j + 1}
        /\ i' + j' > i + j

C27_Terminates ==
    /\ <>(pc = "done")
    /\ []C27_PlanBound
    /\ [][C27_Iteration]_vars

\* two creditors and two debtors, three settlements
C27_Witness ==
    /\ pc = "done"
    /\ Len(creditors) = 2 /\ Len(debtors) = 2
    /\ Len(settlements) = 3
    /\ i = 2 /\ j = 2

(***************************************************************************)
(* C30: for every balance mapping whose net balances sum to zero, the      *)
(* amounts of the balance matrix's edges add up to the same total as the   *)
(* amounts of the settlement plan, and every participant's net amount      *)
(* transferred (paid minus received) is the same in the matrix as in the   *)
(* plan.                                                                   *)
(***************************************************************************)
C30_MatrixAgreesWithPlan ==
    (pc = "done" /\ group_balance.matrix_called /\ SumsToZero(balances)) =>
        LET edges == group_balance.balance_matrix
        IN  /\ SumSeq([t \in 1..Len(edges) |-> edges[t].amount]) = total_amount
            /\ \A k \in 1..Len(balances) :
                  NetAfter(balances, edges, k) = NetAfter(balances, settlements, k)

(***************************************************************************)
(* C25: delete_participant succeeds only when the participant is the payer *)
(* of no expense; when the participant is the payer of at least one        *)
(* expense the request is rejected and the participants, the expenses and  *)
(* the splits are unchanged; so no operation ever leaves an expense whose  *)
(* payer has been deleted.                                                 *)
(***************************************************************************)
C25_NoDeletedPayer ==
    \A e \in expenses : e.payer_id \in valid_participant_ids

C25_Step ==
    response'.op = "delete_participant" =>
        LET paid == {x \in expenses : x.payer_id = response'.id}
        IN  /\ response'.status = 200 <=> paid = {}
            /\ response'.status = 200 => response'.id \notin valid_participant_ids'
            /\ paid # {} =>
                  /\ response'.status = 400
                  /\ UNCHANGED <<participants, expenses, expense_splits>>

C28_ReferencesExist ==
    /\ {e.payer_id : e \in expenses} \subseteq valid_participant_ids
    /\ {s.participant_id : s \in expense_splits} \subseteq valid_participant_ids

\* a split participant was deleted; the expense is left with its payer's split
C28_Witness ==
    /\ response.op = "delete_participant"
    /\ response.status = 200
    /\ expenses # {}
    /\ expense_splits # {}
    /\ Cardinality(participants) = 1

(***************************************************************************)
(* C29: every split amount persisted by a successful create_expense is     *)
(* strictly greater than zero, in the EQUAL, CUSTOM_AMOUNT and PERCENTAGE  *)
(* modes alike, for every positive 2-decimal amount and one to four split  *)
(* participants.                                                           *)
(***************************************************************************)
C29_StoredSplitsPositive ==
    \A s \in expense_splits : s.amount > 0

(***************************************************************************)
(* C26: after a successful create_expense followed by delete_expense of    *)
(* that same expense, with no other write in between,                      *)
(* calculate_participant_balances returns for every participant exactly    *)
(* the total_paid, total_share and net_balance it returned before the      *)
(* creation, and no split of the deleted expense remains.                  *)
(***************************************************************************)
C26_CreateThenDeleteRestores ==
    (response.op = "delete_expense" /\ response.status = 200) =>
        /\ balance_entries(balance_keys) = balances
        /\ \A k \in 1..Len(balances) :
              LET now == calculate_participant_balances[balances[k].participant_id]
              IN  /\ now.total_paid = balances[k].total_paid
                  /\ now.total_share = balances[k].total_share
                  /\ now.net_balance = balances[k].net_balance
        /\ SplitsOf(response.id) = {}

\* 90.00 was stored before; a second expense was created and deleted again
C26_Witness ==
    /\ response.op = "delete_expense"
    /\ response.status = 200
    /\ response.id = 2
    /\ request.split_mode = PERCENTAGE
    /\ expenses = {StoredExpense(1)}
    /\ Len(balances) = 2
    /\ balances[1].net_balance = 4500
    /\ balances[2].net_balance = -4500

(***************************************************************************)
(* C21: a balance query (calculate_participant_balances, which reads the   *)
(* participants, the expenses and the splits in three separate queries)    *)
(* that runs while create_expense or delete_expense is handled for the     *)
(* same group returns the balances of a single committed state, the one    *)
(* before or the one after the other operation; in particular the returned *)
(* net balances sum to zero.                                               *)
(***************************************************************************)
C21_QueryReturnsCommittedState ==
    (pc = "start" /\ snapshots # {}) =>
        /\ balances \in snapshots
        /\ (\A s \in snapshots : SumsToZero(s)) => SumsToZero(balances)

====
